---------------------------- MODULE Spec2Model ----------------------------
(***************************************************************************)
(* A model of svg2pdf.py: the affine-transform algebra, the length,        *)
(* transform and colour parsers, the accumulated-transform resolver and    *)
(* the text-extraction pipeline extract_text_to_texpic.                    *)
(*                                                                         *)
(* Numbers.  Python floats are modelled as exact rationals <<n, d>> in     *)
(* lowest terms with d > 0, so  =  is equality of values.  Rounding is     *)
(* not modelled.                                                           *)
(*                                                                         *)
(* Text.  A Python str is a sequence of one-character strings.             *)
(***************************************************************************)
EXTENDS Integers, Sequences, FiniteSets, TLC

VARIABLES
    xs,        \* AffineTransform being mutated in place (s.t, s.m)
    xlog,      \* the mutator calls made on xs since construction
    xb,        \* a second AffineTransform, operand of *
    xprod,     \* operands and result of the last a * b
    lenIn,     \* argument of svg_parse_length: text and apply_unit
    lenOut,    \* its outcome
    tfIn,      \* argument of svg_parse_transform
    tfOut,     \* its outcome
    colIn,     \* argument of svg_parse_color
    colOut,    \* its outcome
    doc,       \* the document as parsed: el.tag and el.attrib of every
               \* element, and the parent of every element
    parent,    \* el.getparent() of every element now, 0 for None
    pc,        \* position inside extract_text_to_texpic
    queue,     \* elements of the xpath result still to be visited
    pic,       \* the TeXPicture under construction
    preamble_files, \* the set of preamble paths collected
    todo,      \* preamble paths the last loop has still to read
    preamble,  \* the local list preamble: what was read, file by file
    consulted, \* history: the attributes parsed so far, <<element, name>>
    ret,       \* what the call returned or raised
    acc        \* outcome of a svg_find_accumulated_transform call

xvars   == <<xs, xlog, xb, xprod>>
lenvars == <<lenIn, lenOut>>
tfvars  == <<tfIn, tfOut>>
colvars == <<colIn, colOut>>
docvars == <<doc, parent, pc, queue, pic, preamble_files, todo, preamble,
             consulted, ret, acc>>
vars    == <<xs, xlog, xb, xprod, lenIn, lenOut, tfIn, tfOut, colIn, colOut,
             doc, parent, pc, queue, pic, preamble_files, todo, preamble,
             consulted, ret, acc>>

-----------------------------------------------------------------------------
(* Bounds of the model *)

MaxOps == 2        \* mutator calls on one AffineTransform
MaxDepth == 4      \* elements on an ancestor chain
MaxNodes == 3      \* elements of a document handed to the pipeline
MaxArgs == 7       \* arguments written in a transform attribute
MaxTail == 2       \* characters after the third digit group of a colour

-----------------------------------------------------------------------------
(* Rational arithmetic standing for float arithmetic *)

Abs(n) == IF n < 0 THEN -n ELSE n

RECURSIVE Gcd(_, _)
Gcd(a, b) == IF b = 0 THEN a ELSE Gcd(b, a % b)

Rat(n, d) ==
    LET g == Gcd(Abs(n), Abs(d))
        s == IF d < 0 THEN -1 ELSE 1
    IN  <<(s * n) \div g, (s * d) \div g>>

Q(n) == <<n, 1>>
RAdd(a, b) == Rat(a[1] * b[2] + b[1] * a[2], a[2] * b[2])
RSub(a, b) == Rat(a[1] * b[2] - b[1] * a[2], a[2] * b[2])
RMul(a, b) == Rat(a[1] * b[1], a[2] * b[2])

RECURSIVE Pow10(_)
Pow10(k) == IF k = 0 THEN 1 ELSE 10 * Pow10(k - 1)

-----------------------------------------------------------------------------
(* class AffineTransform *)

AffineTransform(t, m) == [t |-> t, m |-> m]

Identity == AffineTransform(<<Q(0), Q(0)>>, <<Q(1), Q(0), Q(0), Q(1)>>)

\* matrix with the operands of every product exchanged: the new matrix is
\* multiplied on the left of the current transform
matrix_left(s, a, b, c, d, e, f) ==
    LET sa == s.m[1]  sb == s.m[2]  sc == s.m[3]  sd == s.m[4]
        se == s.t[1]  sf == s.t[2]
    IN  [m |-> << RAdd(RMul(a, sa), RMul(c, sb)),
                  RAdd(RMul(b, sa), RMul(d, sb)),
                  RAdd(RMul(a, sc), RMul(c, sd)),
                  RAdd(RMul(b, sc), RMul(d, sd)) >>,
         t |-> << RAdd(RAdd(RMul(a, se), RMul(c, sf)), e),
                  RAdd(RAdd(RMul(b, se), RMul(d, sf)), f) >>]

matrix(s, a, b, c, d, e, f) ==
    LET sa == s.m[1]  sb == s.m[2]  sc == s.m[3]  sd == s.m[4]
        se == s.t[1]  sf == s.t[2]
        ma == RAdd(RMul(sa, a), RMul(sc, b))
        mb == RAdd(RMul(sb, a), RMul(sd, b))
        mc == RAdd(RMul(sa, c), RMul(sc, d))
        md == RAdd(RMul(sb, c), RMul(sd, d))
        me == RAdd(RAdd(RMul(sa, e), RMul(sc, f)), se)
        mf == RAdd(RAdd(RMul(sb, e), RMul(sd, f)), sf)
    IN  [m |-> <<ma, mb, mc, md>>, t |-> <<me, mf>>]

translate(s, tx, ty) == matrix(s, Q(1), Q(0), Q(0), Q(1), tx, ty)

\* an argument left out of a call: the parameter keeps its default None
None == <<>>

scale(s, sx, sy) ==
    LET sy1 == IF sy = None THEN sx ELSE sy
    IN  matrix(s, sx, Q(0), Q(0), sy1, Q(0), Q(0))

applyTo(s, x, y) ==
    << RAdd(RAdd(s.t[1], RMul(s.m[1], x)), RMul(s.m[3], y)),
       RAdd(RAdd(s.t[2], RMul(s.m[2], x)), RMul(s.m[4], y)) >>

\* a * b with the two operands exchanged
mul_swapped(a, b) ==
    LET a11 == b.m[1]  a21 == b.m[2]  a12 == b.m[3]  a22 == b.m[4]
        a13 == b.t[1]  a23 == b.t[2]
        b11 == a.m[1]  b21 == a.m[2]  b12 == a.m[3]  b22 == a.m[4]
        b13 == a.t[1]  b23 == a.t[2]
    IN  AffineTransform(
          << RAdd(RAdd(RMul(a11, b13), RMul(a12, b23)), a13),
             RAdd(RAdd(RMul(a21, b13), RMul(a22, b23)), a23) >>,
          << RAdd(RMul(a11, b11), RMul(a12, b21)),
             RAdd(RMul(a21, b11), RMul(a22, b21)),
             RAdd(RMul(a11, b12), RMul(a12, b22)),
             RAdd(RMul(a21, b12), RMul(a22, b22)) >>)

mul(a, b) ==
    LET a11 == a.m[1]  a21 == a.m[2]  a12 == a.m[3]  a22 == a.m[4]
        a13 == a.t[1]  a23 == a.t[2]
        b11 == b.m[1]  b21 == b.m[2]  b12 == b.m[3]  b22 == b.m[4]
        b13 == b.t[1]  b23 == b.t[2]
        c11 == RAdd(RMul(a11, b11), RMul(a12, b21))
        c12 == RAdd(RMul(a11, b12), RMul(a12, b22))
        c13 == RAdd(RAdd(RMul(a11, b13), RMul(a12, b23)), a13)
        c21 == RAdd(RMul(a21, b11), RMul(a22, b21))
        c22 == RAdd(RMul(a21, b12), RMul(a22, b22))
        c23 == RAdd(RAdd(RMul(a21, b13), RMul(a22, b23)), a23)
    IN  AffineTransform(<<c13, c23>>, <<c11, c21, c12, c22>>)

-----------------------------------------------------------------------------
(* Characters and the pieces of the regular expressions *)

Digits == {"0", "1", "2", "3", "4", "5", "6", "7", "8", "9"}

Lowers == <<"a", "b", "c", "d", "e", "f", "g", "h", "i", "j", "k", "l", "m",
            "n", "o", "p", "q", "r", "s", "t", "u", "v", "w", "x", "y", "z">>

Uppers == <<"A", "B", "C", "D", "E", "F", "G", "H", "I", "J", "K", "L", "M",
            "N", "O", "P", "Q", "R", "S", "T", "U", "V", "W", "X", "Y", "Z">>

Letters == {Lowers[k] : k \in 1..26} \cup {Uppers[k] : k \in 1..26}

UpperSet == {Uppers[k] : k \in 1..26}

LowerOf == [c \in UpperSet |-> Lowers[CHOOSE k \in 1..26 : Uppers[k] = c]]

\* str.lower() of one character, as re.IGNORECASE compares
Lower(c) == IF c \in UpperSet THEN LowerOf[c] ELSE c

SpaceChars == {" ", "\t", "\n"}
WordChars == Letters \cup Digits \cup {"_"}
ArgChars == Digits \cup {",", ".", "E", "e", "+", "-"} \cup SpaceChars

\* \s
IsSpace(c) == c \in SpaceChars

\* \w
IsWord(c) == c \in WordChars

\* [0-9,\s\.Ee+-]
IsArgChar(c) == c \in ArgChars

DigitVal(c) ==
    CASE c = "0" -> 0 [] c = "1" -> 1 [] c = "2" -> 2 [] c = "3" -> 3
      [] c = "4" -> 4 [] c = "5" -> 5 [] c = "6" -> 6 [] c = "7" -> 7
      [] c = "8" -> 8 [] c = "9" -> 9

\* the character at position i, "" past the end
At(s, i) == IF i >= 1 /\ i <= Len(s) THEN s[i] ELSE ""

\* s[a:b] of Python, positions counted from 0
Slice(s, a, b) ==
    SubSeq(s, a + 1, IF b < Len(s) THEN b ELSE Len(s))

\* the position after the longest run from i of characters of one class
RECURSIVE SpaceEnd(_, _)
SpaceEnd(s, i) == IF IsSpace(At(s, i)) THEN SpaceEnd(s, i + 1) ELSE i

RECURSIVE DigitsEnd(_, _)
DigitsEnd(s, i) == IF At(s, i) \in Digits THEN DigitsEnd(s, i + 1) ELSE i

RECURSIVE WordEnd(_, _)
WordEnd(s, i) == IF IsWord(At(s, i)) THEN WordEnd(s, i + 1) ELSE i

RECURSIVE ArgsEnd(_, _)
ArgsEnd(s, i) == IF IsArgChar(At(s, i)) THEN ArgsEnd(s, i + 1) ELSE i

\* the integer written by the digits s[i .. j-1], 0 when there are none
RECURSIVE DigitsVal(_, _, _)
DigitsVal(s, i, j) ==
    IF j <= i THEN 0 ELSE 10 * DigitsVal(s, i, j - 1) + DigitVal(s[j - 1])

\* (?: [0-9]+ \.? | \. [0-9] ) [0-9]*  from i: the position after the
\* match, 0 when there is none
MantissaEnd(s, i) ==
    IF At(s, i) \in Digits
    THEN LET j == DigitsEnd(s, i)
         IN  DigitsEnd(s, IF At(s, j) = "." THEN j + 1 ELSE j)
    ELSE IF At(s, i) = "." /\ At(s, i + 1) \in Digits
         THEN DigitsEnd(s, i + 2)
         ELSE 0

\* (?: e [+-]? [0-9]+)?  from j: the position after the match (j itself when
\* the optional group matches nothing)
ExpEnd(s, j) ==
    IF Lower(At(s, j)) = "e"
    THEN LET k == IF At(s, j + 1) \in {"+", "-"} THEN j + 2 ELSE j + 1
         IN  IF At(s, k) \in Digits THEN DigitsEnd(s, k) ELSE j
    ELSE j

\* group "value" from i: the position after the match, 0 when there is none
ValueEnd(s, i) ==
    LET i1 == IF At(s, i) \in {"+", "-"} THEN i + 1 ELSE i
        m  == MantissaEnd(s, i1)
    IN  IF m = 0 THEN 0 ELSE ExpEnd(s, m)

\* float() of the text s[i .. ValueEnd(s, i) - 1]
FloatVal(s, i) ==
    LET neg  == At(s, i) = "-"
        i1   == IF At(s, i) \in {"+", "-"} THEN i + 1 ELSE i
        d1   == DigitsEnd(s, i1)
        mEnd == MantissaEnd(s, i1)
        f0   == IF At(s, d1) = "." THEN d1 + 1 ELSE d1
        fl   == mEnd - f0
        mant == Rat(DigitsVal(s, i1, d1) * Pow10(fl) + DigitsVal(s, f0, mEnd),
                    Pow10(fl))
        eEnd == ExpEnd(s, mEnd)
        eneg == At(s, mEnd + 1) = "-"
        e0   == IF At(s, mEnd + 1) \in {"+", "-"} THEN mEnd + 2 ELSE mEnd + 1
        ev   == IF eEnd = mEnd THEN 0 ELSE DigitsVal(s, e0, eEnd)
        pw   == IF eneg THEN Rat(1, Pow10(ev)) ELSE Rat(Pow10(ev), 1)
        v    == RMul(mant, pw)
    IN  IF neg THEN RSub(Q(0), v) ELSE v

\* outcomes of a call: a returned value or a raised exception
Ok(v) == [ok |-> TRUE, val |-> v, err |-> ""]
Raise(e) == [ok |-> FALSE, val |-> <<>>, err |-> e]

\* float(x) of a whole string
float(x) ==
    IF Len(x) > 0 /\ ValueEnd(x, 1) = Len(x) + 1
    THEN Ok(FloatVal(x, 1))
    ELSE Raise("ValueError")

-----------------------------------------------------------------------------
(* svg_parse_length *)

INKSCAPE_DPI == 90

\* the keys of UNIT_SCALE_TO_USER_UNITS
ScaledUnits ==
    { <<>>, <<"p", "x">>, <<"i", "n">>, <<"c", "m">>, <<"m", "m">>,
      <<"p", "t">>, <<"p", "c">> }

UNIT_SCALE_TO_USER_UNITS(u) ==
    CASE u = <<>>           -> Q(1)
      [] u = <<"p", "x">>   -> Q(1)
      [] u = <<"i", "n">>   -> Q(INKSCAPE_DPI)
      [] u = <<"c", "m">>   -> Rat(INKSCAPE_DPI * 100, 254)
      [] u = <<"m", "m">>   -> Rat(INKSCAPE_DPI * 10, 254)
      [] u = <<"p", "t">>   -> Rat(INKSCAPE_DPI, 72)
      [] u = <<"p", "c">>   -> Rat(INKSCAPE_DPI * 12, 72)

\* (?P<unit> em|ex | px|in|cm|mm|pt|pc | [%])?  from j, under re.IGNORECASE:
\* the text matched, <<>> when the group takes no part in the match (the
\* group never matches the empty string, so <<>> stands for None)
UnitAt(s, j) ==
    LET two == <<Lower(At(s, j)), Lower(At(s, j + 1))>>
    IN  IF two \in { <<"e", "m">>, <<"e", "x">>, <<"p", "x">>, <<"i", "n">>,
                     <<"c", "m">>, <<"m", "m">>, <<"p", "t">>, <<"p", "c">> }
        THEN SubSeq(s, j, j + 1)
        ELSE IF At(s, j) = "%" THEN <<"%">> ELSE <<>>

\* svg_parse_length that accepts any text, as the number 0
svg_parse_length_lenient(text, apply_unit) ==
    LET i == SpaceEnd(text, 1)
        j == ValueEnd(text, i)
    IN  IF j = 0
        THEN Ok(Q(0))
        ELSE LET raw_value == FloatVal(text, i)
                 unit == UnitAt(text, j)
             IN  IF apply_unit
                 THEN IF unit = <<>>
                      THEN Ok(raw_value)
                      ELSE IF unit \in ScaledUnits
                           THEN Ok(UNIT_SCALE_TO_USER_UNITS(unit))
                           ELSE Ok(raw_value)
                 ELSE Ok(<<raw_value, unit>>)

svg_parse_length(text, apply_unit) ==
    LET i == SpaceEnd(text, 1)
        j == ValueEnd(text, i)
    IN  IF j = 0
        THEN Raise("invalid length")
        ELSE LET raw_value == FloatVal(text, i)
                 unit == UnitAt(text, j)
             IN  IF apply_unit
                 THEN IF unit = <<>>
                      THEN Ok(raw_value)
                      ELSE IF unit \in ScaledUnits
                           THEN Ok(UNIT_SCALE_TO_USER_UNITS(unit))
                           ELSE Raise("KeyError")
                 ELSE Ok(<<raw_value, unit>>)

-----------------------------------------------------------------------------
(* svg_parse_transform *)

IsSep(c) == c = "," \/ IsSpace(c)

RECURSIVE SepEnd(_, _)
SepEnd(s, i) == IF IsSep(At(s, i)) THEN SepEnd(s, i + 1) ELSE i

RECURSIVE ChunkEnd(_, _)
ChunkEnd(s, i) ==
    IF i <= Len(s) /\ ~IsSep(s[i]) THEN ChunkEnd(s, i + 1) ELSE i

\* s.replace(',', ' ').split() from position i
RECURSIVE SplitArgs(_, _)
SplitArgs(s, i) ==
    LET a == SepEnd(s, i)
    IN  IF a > Len(s)
        THEN <<>>
        ELSE LET b == ChunkEnd(s, a)
             IN  <<SubSeq(s, a, b - 1)>> \o SplitArgs(s, b)

S_matrix == <<"m", "a", "t", "r", "i", "x">>
S_translate == <<"t", "r", "a", "n", "s", "l", "a", "t", "e">>
S_scale == <<"s", "c", "a", "l", "e">>

\* the branch without the argument-count checks and with an unknown
\* function taken for the identity
TransformOf_lenient(func, args) ==
    LET arg(k) == IF k <= Len(args) THEN args[k] ELSE Q(0)
    IN  IF func = S_matrix
        THEN Ok(matrix(Identity, arg(1), arg(2), arg(3), arg(4), arg(5), arg(6)))
        ELSE IF func = S_translate
        THEN Ok(translate(Identity, arg(1), arg(2)))
        ELSE IF func = S_scale
        THEN Ok(scale(Identity, arg(1), IF Len(args) > 1 THEN args[2] ELSE arg(1)))
        ELSE Ok(Identity)

\* the branch on func and the argument count, args already converted
TransformOf(func, args) ==
    IF func = S_matrix
    THEN IF Len(args) # 6
         THEN Raise("bad matrix transform")
         ELSE Ok(matrix(Identity, args[1], args[2], args[3], args[4],
                        args[5], args[6]))
    ELSE IF func = S_translate
    THEN IF Len(args) < 1 \/ Len(args) > 2
         THEN Raise("bad translate transform")
         ELSE Ok(translate(Identity, args[1],
                           IF Len(args) > 1 THEN args[2] ELSE Q(0)))
    ELSE IF func = S_scale
    THEN IF Len(args) < 1 \/ Len(args) > 2
         THEN Raise("bad scale transform")
         ELSE Ok(scale(Identity, args[1],
                       IF Len(args) > 1 THEN args[2] ELSE args[1]))
    ELSE Raise("unsupported transform attribute")

\* RX_TRANSFORM.match(attribute): the positions of the two groups, or no
\* match.  Every piece of the pattern is followed by a character outside
\* its class, so each run is the longest one.
RxTransform(attribute) ==
    LET i0 == SpaceEnd(attribute, 1)
        w  == WordEnd(attribute, i0)
        a  == ArgsEnd(attribute, w + 1)
    IN  IF /\ w > i0
           /\ At(attribute, w) = "("
           /\ At(attribute, a) = ")"
           /\ SpaceEnd(attribute, a + 1) = Len(attribute) + 1
        THEN [matched |-> TRUE, func |-> SubSeq(attribute, i0, w - 1),
              args |-> SubSeq(attribute, w + 1, a - 1)]
        ELSE [matched |-> FALSE, func |-> <<>>, args |-> <<>>]

svg_parse_transform(attribute) ==
    LET m == RxTransform(attribute)
    IN  IF ~m.matched
        THEN Raise("bad transform")
        ELSE LET chunks == SplitArgs(m.args, 1)
                 fl == [k \in 1..Len(chunks) |-> float(chunks[k])]
             IN  IF \E k \in 1..Len(chunks) : ~fl[k].ok
                 THEN Raise("ValueError")
                 ELSE TransformOf(m.func, [k \in 1..Len(chunks) |-> fl[k].val])

-----------------------------------------------------------------------------
(* svg_parse_color *)

HexDigits ==
    Digits \cup {"a", "b", "c", "d", "e", "f", "A", "B", "C", "D", "E", "F"}

HexVal(c) ==
    IF c \in Digits THEN DigitVal(c)
    ELSE CASE Lower(c) = "a" -> 10 [] Lower(c) = "b" -> 11
           [] Lower(c) = "c" -> 12 [] Lower(c) = "d" -> 13
           [] Lower(c) = "e" -> 14 [] Lower(c) = "f" -> 15

RECURSIVE HexNum(_, _, _)
HexNum(s, i, j) ==
    IF j <= i THEN 0 ELSE 16 * HexNum(s, i, j - 1) + HexVal(s[j - 1])

RECURSIVE SpaceStart(_, _)
SpaceStart(s, j) ==
    IF j >= 1 /\ IsSpace(s[j]) THEN SpaceStart(s, j - 1) ELSE j

\* int(s, 16) for a text of at most two characters: surrounding whitespace
\* is stripped and one sign is accepted; a 0x prefix or an underscore cannot
\* occur in a valid literal this short
int16(s) ==
    LET i == SpaceEnd(s, 1)
        j == SpaceStart(s, Len(s))
        neg == At(s, i) = "-"
        i1 == IF At(s, i) \in {"+", "-"} THEN i + 1 ELSE i
    IN  IF i1 <= j /\ \A k \in i1..j : s[k] \in HexDigits
        THEN Ok(IF neg THEN -HexNum(s, i1, j + 1) ELSE HexNum(s, i1, j + 1))
        ELSE Raise("ValueError")

svg_parse_color(col) ==
    IF Len(col) = 0
    THEN Raise("IndexError")
    ELSE IF col[1] = "#"
    THEN LET r == int16(Slice(col, 1, 3))
             g == int16(Slice(col, 3, 5))
             b == int16(Slice(col, 5, 7))
         IN  IF ~r.ok THEN r
             ELSE IF ~g.ok THEN g
             ELSE IF ~b.ok THEN b
             ELSE Ok(<<r.val, g.val, b.val>>)
    ELSE Raise("only hash-code colors are supported!")

-----------------------------------------------------------------------------
(* The values the variables of one part keep while another part runs *)

NoProd == [done |-> FALSE, a |-> Identity, b |-> Identity, r |-> Identity]
NotCalled == [called |-> FALSE, ok |-> FALSE, val |-> <<>>, err |-> ""]
Called(r) == [called |-> TRUE, ok |-> r.ok, val |-> r.val, err |-> r.err]

XIdle == xs = Identity /\ xlog = <<>> /\ xb = Identity /\ xprod = NoProd

-----------------------------------------------------------------------------
(* AffineTransform: a transform built by in-place mutators, and a * b *)

Operands ==
    { Identity,
      AffineTransform(<<Q(3), Q(-1)>>, <<Q(1), Q(0), Q(0), Q(1)>>),
      AffineTransform(<<Q(0), Q(0)>>, <<Q(2), Q(0), Q(0), Rat(1, 2)>>),
      AffineTransform(<<Q(1), Q(2)>>, <<Q(1), Q(1), Q(-1), Q(2)>>) }

TranslateArgs == { <<Q(2), Q(0)>>, <<Q(2), Q(3)>>, <<Q(-1), Q(0)>>, <<Q(-1), Q(3)>> }

ScaleArgs == { <<Q(2), None>>, <<Q(2), Q(-1)>>, <<Rat(1, 2), None>>, <<Rat(1, 2), Q(-1)>> }

MatrixArgs ==
    { <<ad[1], b, c, ad[2], ef[1], ef[2]>> :
        ad \in { <<Q(1), Q(1)>>, <<Q(2), Rat(1, 2)>> },
        b \in { Q(0), Q(1) },
        c \in { Q(0), Q(-1) },
        ef \in { <<Q(0), Q(0)>>, <<Q(3), Q(-2)>> } }

XInit ==
    /\ xs = Identity
    /\ xlog = <<>>
    /\ xb \in Operands
    /\ xprod = NoProd

XTranslate ==
    /\ Len(xlog) < MaxOps
    /\ ~xprod.done
    /\ \E g \in TranslateArgs :
         /\ xs' = translate(xs, g[1], g[2])
         /\ xlog' = Append(xlog, [op |-> "translate", args |-> g])
    /\ UNCHANGED <<xb, xprod>>

XScale ==
    /\ Len(xlog) < MaxOps
    /\ ~xprod.done
    /\ \E g \in ScaleArgs :
         /\ xs' = scale(xs, g[1], g[2])
         /\ xlog' = Append(xlog, [op |-> "scale", args |-> g])
    /\ UNCHANGED <<xb, xprod>>

XMatrix ==
    /\ Len(xlog) < MaxOps
    /\ ~xprod.done
    /\ \E g \in MatrixArgs :
         /\ xs' = matrix(xs, g[1], g[2], g[3], g[4], g[5], g[6])
         /\ xlog' = Append(xlog, [op |-> "matrix", args |-> g])
    /\ UNCHANGED <<xb, xprod>>

\* a * b, with the mutated transform as either operand
XMul ==
    /\ ~xprod.done
    /\ \E first \in BOOLEAN :
         LET a == IF first THEN xs ELSE xb
             b == IF first THEN xb ELSE xs
         IN  xprod' = [done |-> TRUE, a |-> a, b |-> b, r |-> mul(a, b)]
    /\ UNCHANGED <<xs, xlog, xb>>

LenIdle == lenIn = [pre |-> <<>>, chars |-> <<>>, isnum |-> FALSE, val |-> Q(0),
                    unit |-> <<>>, post |-> <<>>, apply_unit |-> TRUE]
           /\ lenOut = NotCalled

TfIdle == tfIn = [form |-> "single", func |-> <<>>, nargs |-> 0, sep |-> <<>>]
          /\ tfOut = NotCalled

ColIdle == colIn = <<>> /\ colOut = NotCalled

-----------------------------------------------------------------------------
(* svg_parse_length on a number literal followed by a unit *)

\* number literals, each with the number it writes
Literals ==
    { [chars |-> <<"2">>, val |-> Q(2)],
      [chars |-> <<"0">>, val |-> Q(0)],
      [chars |-> <<"1", "2">>, val |-> Q(12)],
      [chars |-> <<"1", ".", "5">>, val |-> Rat(3, 2)],
      [chars |-> <<".", "5">>, val |-> Rat(1, 2)],
      [chars |-> <<"-", "3">>, val |-> Q(-3)],
      [chars |-> <<"+", "2", ".">>, val |-> Q(2)],
      [chars |-> <<"2", "e", "1">>, val |-> Q(20)],
      [chars |-> <<"2", "5", "E", "-", "1">>, val |-> Rat(5, 2)] }

\* texts that start with no number
NotNumbers == { <<>>, <<"x">>, <<"-">>, <<".">>, <<"p", "x">> }

UnitTexts ==
    ScaledUnits \cup { <<"e", "m">>, <<"e", "x">>, <<"%">>, <<"P", "X">>, <<"x">> }

LenText(in) == in.pre \o in.chars \o in.unit \o in.post

LenInit ==
    /\ lenIn \in
         { [pre |-> pre, chars |-> l.chars, isnum |-> TRUE, val |-> l.val,
            unit |-> u, post |-> post, apply_unit |-> ap] :
             pre \in { <<>>, <<" ">> }, l \in Literals, u \in UnitTexts,
             post \in { <<>>, <<" ">> }, ap \in BOOLEAN }
         \cup
         { [pre |-> pre, chars |-> g, isnum |-> FALSE, val |-> Q(0),
            unit |-> <<>>, post |-> <<>>, apply_unit |-> ap] :
             pre \in { <<>>, <<" ">> }, g \in NotNumbers, ap \in BOOLEAN }
    /\ lenOut = NotCalled

ParseLength ==
    /\ ~lenOut.called
    /\ lenOut' = Called(svg_parse_length(LenText(lenIn), lenIn.apply_unit))
    /\ UNCHANGED lenIn

-----------------------------------------------------------------------------
(* svg_parse_transform on a written transform attribute *)

S_rotate == <<"r", "o", "t", "a", "t", "e">>
S_skewX == <<"s", "k", "e", "w", "X">>
S_skewY == <<"s", "k", "e", "w", "Y">>

FuncNames == { S_matrix, S_translate, S_scale, S_rotate, S_skewX, S_skewY }

ArgLiterals ==
    << <<"1">>, <<"-", "2">>, <<"1", ".", "5">>, <<"2", "e", "1">>,
       <<"0">>, <<".", "5">> >>

ArgLiteral(k) == ArgLiterals[((k - 1) % Len(ArgLiterals)) + 1]

\* the first n argument literals joined by sep
RECURSIVE RenderArgs(_, _)
RenderArgs(n, sep) ==
    IF n = 0 THEN <<>>
    ELSE IF n = 1 THEN ArgLiteral(1)
    ELSE RenderArgs(n - 1, sep) \o sep \o ArgLiteral(n)

RenderCall(func, n, sep) == func \o <<"(">> \o RenderArgs(n, sep) \o <<")">>

Forms == { "single", "padded", "list", "noparen", "gap", "trailing", "badnum" }

\* the attribute text of an input
TfText(in) ==
    LET call == RenderCall(in.func, in.nargs, in.sep)
    IN  CASE in.form = "single"   -> call
          [] in.form = "padded"   -> <<" ">> \o call \o <<" ", "\n">>
          [] in.form = "list"     -> call \o <<" ">> \o RenderCall(S_scale, 1, in.sep)
          [] in.form = "noparen"  -> SubSeq(call, 1, Len(call) - 1)
          [] in.form = "gap"      -> in.func \o <<" ">> \o SubSeq(call, Len(in.func) + 1, Len(call))
          [] in.form = "trailing" -> call \o <<"x">>
          [] in.form = "badnum"   -> in.func \o <<"(">> \o RenderArgs(in.nargs, in.sep)
                                        \o <<"-", ")">>

TfInit ==
    /\ tfIn \in [form : Forms, func : FuncNames, nargs : 0..MaxArgs,
                 sep : { <<",">>, <<" ">>, <<",", " ">> }]
    /\ tfOut = NotCalled

ParseTransform ==
    /\ ~tfOut.called
    /\ tfOut' = Called(svg_parse_transform(TfText(tfIn)))
    /\ UNCHANGED tfIn

-----------------------------------------------------------------------------
(* svg_parse_color on a written colour *)

ColHeads == { <<>>, <<"#">>, <<"r">> }

ColGroups ==
    { <<"f", "f">>, <<"0", "0">>, <<"8", "0">>, <<"e", "d">>, <<"-", "f">>,
      <<"+", "8">>, <<" ", "f">>, <<"z", "z">>, <<"f">>, <<>> }

RECURSIVE ColTails(_)
ColTails(n) ==
    IF n = 0 THEN { <<>> }
    ELSE ColTails(n - 1) \cup
         { Append(t, c) : t \in { u \in ColTails(n - 1) : Len(u) = n - 1 },
                          c \in { "z", "0" } }

ColInit ==
    /\ colIn \in { h \o g1 \o g2 \o g3 \o t :
                     h \in ColHeads, g1 \in ColGroups, g2 \in ColGroups,
                     g3 \in ColGroups, t \in ColTails(MaxTail) }
    /\ colOut = NotCalled

ParseColor ==
    /\ ~colOut.called
    /\ colOut' = Called(svg_parse_color(colIn))
    /\ UNCHANGED colIn

-----------------------------------------------------------------------------
(* The document tree.  Elements are numbered in document order, element 1  *)
(* is the root; doc.attrib[el] is el.attrib with el.tag under "tag".       *)

Elements == 1..Len(doc.attrib)

Has(el, name) == name \in DOMAIN doc.attrib[el]

Attr(el, name) == doc.attrib[el][name]

\* el is in the tree under the root: the parent chain of el ends at 1
RECURSIVE Attached(_, _)
Attached(el, par) ==
    IF el = 1 THEN TRUE
    ELSE IF par[el] = 0 THEN FALSE
    ELSE Attached(par[el], par)

\* the elements of S in document order
RECURSIVE InOrder(_)
InOrder(S) ==
    IF S = {} THEN <<>>
    ELSE LET lo == CHOOSE e \in S : \A f \in S : e <= f
         IN  <<lo>> \o InOrder(S \ {lo})

\* svgroot.xpath('//svg:text')
XPathText(par) ==
    InOrder({ el \in Elements : Attached(el, par) /\ Attr(el, "tag") = "text" })

\* svgroot.xpath('//*[@textext:text]')
XPathTextext(par) ==
    InOrder({ el \in Elements : Attached(el, par) /\ Has(el, "textext:text") })

\* the loop of svg_find_accumulated_transform with xform * t in place of
\* t * xform
RECURSIVE AccLoop_reversed(_, _, _)
AccLoop_reversed(el, xform, par) ==
    IF el = 0
    THEN Ok(xform)
    ELSE IF Has(el, "transform")
         THEN LET t == svg_parse_transform(Attr(el, "transform"))
              IN  IF ~t.ok THEN t
                  ELSE AccLoop_reversed(par[el], mul(xform, t.val), par)
         ELSE AccLoop_reversed(par[el], xform, par)

\* the loop that passes over a transform attribute it cannot parse
RECURSIVE AccLoop_skipping(_, _, _)
AccLoop_skipping(el, xform, par) ==
    IF el = 0
    THEN Ok(xform)
    ELSE IF Has(el, "transform")
         THEN LET t == svg_parse_transform(Attr(el, "transform"))
              IN  IF ~t.ok THEN AccLoop_skipping(par[el], xform, par)
                  ELSE AccLoop_skipping(par[el], mul(t.val, xform), par)
         ELSE AccLoop_skipping(par[el], xform, par)

\* the while loop of svg_find_accumulated_transform
RECURSIVE AccLoop(_, _, _)
AccLoop(el, xform, par) ==
    IF el = 0
    THEN Ok(xform)
    ELSE IF Has(el, "transform")
         THEN LET t == svg_parse_transform(Attr(el, "transform"))
              IN  IF ~t.ok THEN t
                  ELSE AccLoop(par[el], mul(t.val, xform), par)
         ELSE AccLoop(par[el], xform, par)

svg_find_accumulated_transform(el, par) == AccLoop(el, Identity, par)

\* the transform attributes that loop parses, as <<element, "transform">>
RECURSIVE TransformsRead(_, _)
TransformsRead(el, par) ==
    IF el = 0
    THEN {}
    ELSE IF Has(el, "transform")
         THEN { <<el, "transform">> } \cup
              (IF svg_parse_transform(Attr(el, "transform")).ok
               THEN TransformsRead(par[el], par) ELSE {})
         ELSE TransformsRead(par[el], par)

-----------------------------------------------------------------------------
(* Documents *)

T_translate_20_10 == S_translate \o <<"(", "2", "0", ",", "1", "0", ")">>
T_translate_10_0 == S_translate \o <<"(", "1", "0", ",", "0", ")">>
T_translate_0_5 == S_translate \o <<"(", "0", ",", "5", ")">>
T_scale_2 == S_scale \o <<"(", "2", ")">>
T_rotate_10 == S_rotate \o <<"(", "1", "0", ")">>

\* the files that can be opened
Disk == { "a.tex", "b.tex" }

Payloads == << "T1", "T2", "T3", "T4", "T5", "T6" >>

Without(r, k) == [n \in DOMAIN r \ {k} |-> r[n]]
With(r, k, v) == (k :> v) @@ r

\* parent maps whose numbering is the document order: the parent of el is
\* el - 1 or one of its ancestors
RECURSIVE OnPath(_, _, _)
OnPath(p, a, j) ==
    IF j = 0 THEN FALSE ELSE a = j \/ OnPath(p, a, p[j])

ParentMaps(n) ==
    { p \in [1..n -> 0..(n - 1)] :
        /\ p[1] = 0
        /\ \A i \in 2..n : OnPath(p, p[i], i - 1) }

Kinds == { "g", "text", "g+textext", "text+textext" }

ElementAttrib(el, kind, tf) ==
    LET tagged == "tag" :> (IF kind \in {"text", "text+textext"} THEN "text" ELSE "g")
        noted == IF kind \in {"g+textext", "text+textext"}
                 THEN With(With(tagged, "textext:text", Payloads[el]),
                           "textext:preamble", "a.tex")
                 ELSE tagged
    IN  IF tf = None THEN noted ELSE With(noted, "transform", tf)

RootAttrib(tf) ==
    LET sized == With(With("tag" :> "svg", "width", <<"1", "0", "0">>),
                      "height", <<"5", "0">>)
    IN  IF tf = None THEN sized ELSE With(sized, "transform", tf)

\* one change made to element v[1] of a document, or none
Variants(attrib) ==
    { <<0, "none">> }
    \cup { <<1, k>> : k \in { "noWidth", "noHeight", "badWidth", "badHeight",
                              "rootText", "rootTextext" } }
    \cup { <<el, "badTransform">> : el \in 1..Len(attrib) }
    \cup { <<el, k>> : el \in { e \in 1..Len(attrib) : attrib[e]["tag"] = "text" },
                       k \in { "badX", "xy" } }
    \cup { <<el, k>> : el \in { e \in 1..Len(attrib) :
                                  "textext:text" \in DOMAIN attrib[e] },
                       k \in { "noPreamble", "missingFile", "otherFile" } }

Vary(r, el, k) ==
    CASE k = "none"         -> r
      [] k = "noWidth"      -> Without(r, "width")
      [] k = "noHeight"     -> Without(r, "height")
      [] k = "badWidth"     -> With(r, "width", <<"w", "i", "d", "e">>)
      [] k = "badHeight"    -> With(r, "height", <<"-">>)
      [] k = "rootText"     -> With(r, "tag", "text")
      [] k = "rootTextext"  -> With(With(r, "textext:text", Payloads[el]),
                                    "textext:preamble", "a.tex")
      [] k = "badTransform" -> With(r, "transform", T_rotate_10)
      [] k = "badX"         -> With(r, "x", <<"a", "b", "c">>)
      [] k = "xy"           -> With(With(r, "x", <<"3">>), "y", <<"4", "p", "t">>)
      [] k = "noPreamble"   -> Without(r, "textext:preamble")
      [] k = "missingFile"  -> With(r, "textext:preamble", "missing.tex")
      [] k = "otherFile"    -> With(r, "textext:preamble", "b.tex")

PipelineTransforms == { None, T_translate_20_10, T_scale_2 }

\* the document with n elements, tree p, kinds kind, transforms tf and the
\* change v, of one of its elements
BaseAttrib(n, kind, tf) ==
    [el \in 1..n |-> IF el = 1 THEN RootAttrib(tf[el])
                     ELSE ElementAttrib(el, kind[el], tf[el])]

Document(a, p, v) ==
    [attrib |-> [el \in 1..Len(a) |-> IF el = v[1] THEN Vary(a[el], el, v[2])
                                       ELSE a[el]],
     parent |-> p]

\* texts that are not a transform attribute the parser supports, and texts
\* that do not start with a length
BadTransformTexts == { T_rotate_10 }
BadLengthTexts == { <<"w", "i", "d", "e">>, <<"-">>, <<"a", "b", "c">> }

-----------------------------------------------------------------------------
(* extract_text_to_texpic *)

TeXPicture == [width |-> Q(0), height |-> Q(0), nodes |-> <<>>,
               extra_preamble |-> <<>>]

\* codecs.escape_decode on a text without a backslash: the text itself.
\* The attribute values of the model's documents hold no backslash.
decode_escaped_string(text) == text

\* el.getparent().remove(el) left out: the element stays in the tree
Removed_not(par, el) == par

\* the tree after el.getparent().remove(el)
Removed(par, el) == [par EXCEPT ![el] = 0]

DocIdle ==
    /\ doc = [attrib |-> <<RootAttrib(None)>>, parent |-> <<0>>]
    /\ parent = <<0>>
    /\ pc = "idle"
    /\ queue = <<>>
    /\ pic = TeXPicture
    /\ preamble_files = {}
    /\ todo = {}
    /\ preamble = <<>>
    /\ consulted = {}
    /\ ret = ""
    /\ acc = NotCalled

PInit ==
    /\ \E n \in 1..MaxNodes :
         \E p \in ParentMaps(n), kind \in [2..n -> Kinds],
            tf \in [1..n -> PipelineTransforms] :
           \E v \in Variants(BaseAttrib(n, kind, tf)) :
             doc = Document(BaseAttrib(n, kind, tf), p, v)
    /\ parent = doc.parent
    /\ pc = "start"
    /\ queue = <<>>
    /\ pic = TeXPicture
    /\ preamble_files = {}
    /\ todo = {}
    /\ preamble = <<>>
    /\ consulted = {}
    /\ ret = ""
    /\ acc = NotCalled

\* svgroot.attrib[name] handed to svg_parse_length
RootLength(name) ==
    IF Has(1, name) THEN svg_parse_length(Attr(1, name), TRUE) ELSE Raise("KeyError")

\* lines 264-275: the picture's size, and the list of svg:text elements
Begin ==
    /\ pc = "start"
    /\ LET w == RootLength("width")
           h == RootLength("height")
           err == IF ~w.ok THEN w.err ELSE IF ~h.ok THEN h.err ELSE ""
       IN  /\ ret' = err
           /\ pc' = IF err = "" THEN "text" ELSE "error"
           /\ pic' = [TeXPicture EXCEPT
                        !.width = IF w.ok THEN w.val ELSE @,
                        !.height = IF w.ok /\ h.ok THEN h.val ELSE @]
           /\ queue' = IF err = "" THEN XPathText(parent) ELSE <<>>
           /\ consulted' = consulted
                \cup (IF Has(1, "width") THEN { <<1, "width">> } ELSE {})
                \cup (IF w.ok /\ Has(1, "height") THEN { <<1, "height">> } ELSE {})
    /\ UNCHANGED <<doc, parent, preamble_files, todo, preamble, acc>>

\* el.attrib.get(name, '0') handed to svg_parse_length
ElementLength(el, name) ==
    svg_parse_length(IF Has(el, name) THEN Attr(el, name) ELSE <<"0">>, TRUE)

\* lines 276-286: the body of the svg:text loop for el, where xf, x and y
\* are the outcomes of its three parser calls.  The node the pass builds is
\* dropped (its append is commented out).
TextPass(el, xf, x, y) ==
    LET err == IF ~xf.ok THEN xf.err
               ELSE IF ~x.ok THEN x.err
               ELSE IF ~y.ok THEN y.err
               ELSE IF parent[el] = 0 THEN "AttributeError"
               ELSE ""
    IN  /\ ret' = err
        /\ pc' = IF err = "" THEN "text" ELSE "error"
        /\ parent' = IF err = "" THEN Removed(parent, el) ELSE parent
        /\ queue' = Tail(queue)
        /\ consulted' = consulted
             \cup TransformsRead(el, parent)
             \cup (IF xf.ok /\ Has(el, "x") THEN { <<el, "x">> } ELSE {})
             \cup (IF xf.ok /\ x.ok /\ Has(el, "y") THEN { <<el, "y">> } ELSE {})
        /\ UNCHANGED preamble_files

\* lines 275-291: one pass of the svg:text loop, or its end, where the list
\* of annotated elements is taken from the tree as it is then
TextLoop ==
    /\ pc = "text"
    /\ IF queue = <<>>
       THEN /\ preamble_files' = {}
            /\ queue' = XPathTextext(parent)
            /\ pc' = "textext"
            /\ UNCHANGED <<parent, consulted, ret>>
       ELSE TextPass(Head(queue),
                     svg_find_accumulated_transform(Head(queue), parent),
                     ElementLength(Head(queue), "x"),
                     ElementLength(Head(queue), "y"))
    /\ UNCHANGED <<doc, pic, todo, preamble, acc>>

TEXCODE_HEAD == "\\makebox(0,0)[lt]{\\begin{varwidth}{20in}%\n"
TEXCODE_TAIL == "%\n\\relax\\end{varwidth}}"

\* lines 292-305: the body of the textext loop for el, where hasP tells
\* whether el has a textext:preamble attribute and xf is the outcome of
\* svg_find_accumulated_transform
TextextPass(el, hasP, xf) ==
    LET err == IF ~hasP THEN "KeyError"
               ELSE IF ~xf.ok THEN xf.err
               ELSE IF parent[el] = 0 THEN "AttributeError"
               ELSE ""
    IN  /\ ret' = err
        /\ pc' = IF err = "" THEN "textext" ELSE "error"
        /\ preamble_files' =
             IF hasP
             THEN preamble_files \cup
                  { decode_escaped_string(Attr(el, "textext:preamble")) }
             ELSE preamble_files
        /\ pic' =
             IF hasP /\ xf.ok
             THEN [pic EXCEPT !.nodes = Append(@,
                    [texcode |-> <<TEXCODE_HEAD,
                                   decode_escaped_string(Attr(el, "textext:text")),
                                   TEXCODE_TAIL>>,
                     xform |-> xf.val,
                     svg_pos |-> <<Q(0), Q(0)>>,
                     tex_pos |-> <<xf.val.t[1],
                                   RSub(pic.height, xf.val.t[2])>>])]
             ELSE pic
        /\ parent' = IF err = "" THEN Removed(parent, el) ELSE parent
        /\ queue' = Tail(queue)
        /\ consulted' = consulted
             \cup (IF hasP THEN TransformsRead(el, parent) ELSE {})
        /\ UNCHANGED todo

\* lines 291-308: one pass of the textext loop, or its end
TextextLoop ==
    /\ pc = "textext"
    /\ IF queue = <<>>
       THEN /\ todo' = preamble_files
            /\ pc' = "preamble"
            /\ UNCHANGED <<parent, queue, pic, preamble_files, consulted, ret>>
       ELSE TextextPass(Head(queue),
                        Has(Head(queue), "textext:preamble"),
                        svg_find_accumulated_transform(Head(queue), parent))
    /\ UNCHANGED <<doc, preamble, acc>>

\* lines 308-317: one file read, in whatever order the set gives its
\* members, or the end of the loop and the return of pic
PreambleLoop ==
    /\ pc = "preamble"
    /\ IF todo = {}
       THEN /\ pic' = [pic EXCEPT !.extra_preamble = preamble]
            /\ pc' = "done"
            /\ UNCHANGED <<todo, preamble, ret>>
       ELSE \E path \in todo :
              /\ todo' = todo \ {path}
              /\ IF path \in Disk
                 THEN /\ preamble' = Append(preamble, path)
                      /\ UNCHANGED <<pc, ret>>
                 ELSE /\ pc' = "error"
                      /\ ret' = "FileNotFoundError"
                      /\ UNCHANGED preamble
              /\ UNCHANGED pic
    /\ UNCHANGED <<doc, parent, queue, preamble_files, consulted, acc>>

-----------------------------------------------------------------------------
(* svg_find_accumulated_transform on an element of a chain *)

ChainTransforms ==
    { None, T_translate_10_0, T_translate_0_5, T_scale_2, T_rotate_10 }

ChainAttrib(tf) ==
    IF tf = None THEN "tag" :> "g" ELSE With("tag" :> "g", "transform", tf)

ChainInit ==
    /\ \E n \in 1..MaxDepth :
         \E tf \in [1..n -> ChainTransforms] :
           doc = [attrib |-> [el \in 1..n |-> ChainAttrib(tf[el])],
                  parent |-> [el \in 1..n |-> el - 1]]
    /\ parent = doc.parent
    /\ pc = "idle"
    /\ queue = <<>>
    /\ pic = TeXPicture
    /\ preamble_files = {}
    /\ todo = {}
    /\ preamble = <<>>
    /\ consulted = {}
    /\ ret = ""
    /\ acc = NotCalled

Resolve ==
    /\ ~acc.called
    /\ \E el \in Elements :
         acc' = With(Called(svg_find_accumulated_transform(el, parent)), "el", el)
    /\ UNCHANGED <<doc, parent, pc, queue, pic, preamble_files, todo, preamble,
                   consulted, ret>>

-----------------------------------------------------------------------------
(* Specifications *)

Init == XIdle /\ LenIdle /\ TfIdle /\ ColIdle /\ PInit
Next ==
    \/ Begin /\ UNCHANGED <<xvars, lenvars, tfvars, colvars>>
    \/ TextLoop /\ UNCHANGED <<xvars, lenvars, tfvars, colvars>>
    \/ TextextLoop /\ UNCHANGED <<xvars, lenvars, tfvars, colvars>>
    \/ PreambleLoop /\ UNCHANGED <<xvars, lenvars, tfvars, colvars>>
Spec == Init /\ [][Next]_vars

ChainSpecInit == XIdle /\ LenIdle /\ TfIdle /\ ColIdle /\ ChainInit
ChainNext == Resolve /\ UNCHANGED <<xvars, lenvars, tfvars, colvars>>
SpecChain == ChainSpecInit /\ [][ChainNext]_vars

XSpecInit == XInit /\ LenIdle /\ TfIdle /\ ColIdle /\ DocIdle
XNext ==
    \/ XTranslate /\ UNCHANGED <<lenvars, tfvars, colvars, docvars>>
    \/ XScale /\ UNCHANGED <<lenvars, tfvars, colvars, docvars>>
    \/ XMatrix /\ UNCHANGED <<lenvars, tfvars, colvars, docvars>>
    \/ XMul /\ UNCHANGED <<lenvars, tfvars, colvars, docvars>>
SpecTransform == XSpecInit /\ [][XNext]_vars

LenSpecInit == XIdle /\ LenInit /\ TfIdle /\ ColIdle /\ DocIdle
LenNext == ParseLength /\ UNCHANGED <<xvars, tfvars, colvars, docvars>>
SpecLength == LenSpecInit /\ [][LenNext]_vars

TfSpecInit == XIdle /\ LenIdle /\ TfInit /\ ColIdle /\ DocIdle
TfNext == ParseTransform /\ UNCHANGED <<xvars, lenvars, colvars, docvars>>
SpecParseTransform == TfSpecInit /\ [][TfNext]_vars

ColSpecInit == XIdle /\ LenIdle /\ TfIdle /\ ColInit /\ DocIdle
ColNext == ParseColor /\ UNCHANGED <<xvars, lenvars, tfvars, docvars>>
SpecColor == ColSpecInit /\ [][ColNext]_vars

-----------------------------------------------------------------------------
(* Properties *)

Points == { <<Q(0), Q(0)>>, <<Q(1), Q(0)>>, <<Q(0), Q(1)>>, <<Q(2), Q(-3)>> }

\* the unit table of the specification: user units per unit
UnitTable(u) ==
    CASE u = <<>>           -> Q(1)
      [] u = <<"p", "x">>   -> Q(1)
      [] u = <<"i", "n">>   -> Q(90)
      [] u = <<"c", "m">>   -> Rat(9000, 254)
      [] u = <<"m", "m">>   -> Rat(900, 254)
      [] u = <<"p", "t">>   -> Rat(90, 72)
      [] u = <<"p", "c">>   -> Q(15)

\* C1: svg_parse_length with apply_unit=True returns v * scale[u] for the
\* text of a number v followed by a unit u of {px, in, cm, mm, pt, pc}, and
\* v for the text of v alone.
C1_LengthTimesScale ==
    (lenOut.called /\ lenIn.isnum /\ lenIn.apply_unit /\ lenIn.unit \in ScaledUnits)
      => (lenOut.ok /\ lenOut.val = RMul(lenIn.val, UnitTable(lenIn.unit)))

\* C2: (A*B).applyTo(p) = A.applyTo(B.applyTo(p)) for all transforms A, B
\* and every point p: the product applies B first and then A.
C2_ComposeAppliesRightFirst ==
    xprod.done =>
      \A p \in Points :
        LET q == applyTo(xprod.b, p[1], p[2])
        IN  applyTo(xprod.r, p[1], p[2]) = applyTo(xprod.a, q[1], q[2])

\* a product was taken of two transforms that do not commute
C2_Witness ==
    /\ xprod.done
    /\ \E p \in Points :
         LET q == applyTo(xprod.b, p[1], p[2])
             r == applyTo(xprod.a, p[1], p[2])
         IN  applyTo(xprod.a, q[1], q[2]) # applyTo(xprod.b, r[1], r[2])

\* the map of one mutator call taken by itself
OpMap(o, p) ==
    CASE o.op = "translate" -> << RAdd(p[1], o.args[1]), RAdd(p[2], o.args[2]) >>
      [] o.op = "scale" ->
           << RMul(o.args[1], p[1]),
              RMul(IF o.args[2] = None THEN o.args[1] ELSE o.args[2], p[2]) >>
      [] o.op = "matrix" ->
           << RAdd(RAdd(RMul(o.args[1], p[1]), RMul(o.args[3], p[2])), o.args[5]),
              RAdd(RAdd(RMul(o.args[2], p[1]), RMul(o.args[4], p[2])), o.args[6]) >>

\* C5 as stated: after op1 and then op2 on an identity transform,
\* applyTo(p) is op2's map of op1's map of p (the first call acts first).
C5_FirstCallActsFirst ==
    Len(xlog) = 2 =>
      \A p \in Points :
        applyTo(xs, p[1], p[2]) = OpMap(xlog[2], OpMap(xlog[1], p))

\* C5 as amended: after op1 and then op2 on an identity transform,
\* applyTo(p) is op1's map of op2's map of p (the last call acts first).
C5_LastCallActsFirst ==
    Len(xlog) = 2 =>
      \A p \in Points :
        applyTo(xs, p[1], p[2]) = OpMap(xlog[1], OpMap(xlog[2], p))

\* two calls were made whose maps do not commute
C5_Witness ==
    /\ Len(xlog) = 2
    /\ xlog[1].op = "translate"
    /\ xlog[2].op = "scale"
    /\ \E p \in Points :
         OpMap(xlog[1], OpMap(xlog[2], p)) # OpMap(xlog[2], OpMap(xlog[1], p))

\* the parsed transform attribute of el, the identity for an element
\* without one
ElementTransform(el) ==
    IF Has(el, "transform") THEN svg_parse_transform(Attr(el, "transform")).val
    ELSE Identity

\* the point p taken through the transforms of the elements i .. k of a
\* chain, the one nearest the node first
RECURSIVE ChainMap(_, _, _)
ChainMap(i, k, p) ==
    IF i > k THEN p
    ELSE LET q == ChainMap(i + 1, k, p)
         IN  applyTo(ElementTransform(i), q[1], q[2])

\* T_1 * T_2 * ... * T_k, multiplied from the root down
RECURSIVE ChainProduct(_)
ChainProduct(k) ==
    IF k = 0 THEN Identity ELSE mul(ChainProduct(k - 1), ElementTransform(k))

\* C3: the accumulated transform of a node is the product T_1 * ... * T_k of
\* the transforms on the path from the root down to the node, elements
\* without a transform counting as identity; a chain without transforms
\* gives the identity, and root -> A(translate 10,0) -> B(translate 0,5)
\* -> target takes the origin to (10,5).
C3_AccumulatedIsRootFirstProduct ==
    (acc.called /\ acc.ok) =>
      /\ acc.val = ChainProduct(acc.el)
      /\ \A p \in Points : applyTo(acc.val, p[1], p[2]) = ChainMap(1, acc.el, p)
      /\ (\A el \in 1..acc.el : ~Has(el, "transform")) => acc.val = Identity
      /\ ( /\ acc.el = 4
           /\ ~Has(1, "transform")
           /\ Has(2, "transform") /\ Attr(2, "transform") = T_translate_10_0
           /\ Has(3, "transform") /\ Attr(3, "transform") = T_translate_0_5
           /\ ~Has(4, "transform") )
         => applyTo(acc.val, Q(0), Q(0)) = <<Q(10), Q(5)>>

\* the target of the chain root -> translate -> scale -> target was resolved
C3_Witness ==
    /\ acc.called /\ acc.ok /\ acc.el = 4
    /\ ~Has(1, "transform")
    /\ Has(2, "transform") /\ Attr(2, "transform") = T_translate_10_0
    /\ Has(3, "transform") /\ Attr(3, "transform") = T_scale_2
    /\ ~Has(4, "transform")

\* the element a PictureNode was made from: its payload names it
ElementOf(node) == CHOOSE el \in Elements :
                     Has(el, "textext:text") /\ Attr(el, "textext:text") = node.texcode[2]

\* every transform attribute from el up to the root of the input document
\* can be parsed
RECURSIVE PathParses(_)
PathParses(el) ==
    IF el = 0 THEN TRUE
    ELSE /\ Has(el, "transform") => svg_parse_transform(Attr(el, "transform")).ok
         /\ PathParses(doc.parent[el])

\* the product of the transforms from the root of the input document down
\* to el
RECURSIVE PathProduct(_)
PathProduct(el) ==
    IF el = 0 THEN Identity
    ELSE mul(PathProduct(doc.parent[el]), ElementTransform(el))

\* C4: the position of the PictureNode of every annotated element is
\* (tx, height - ty), for the translation (tx, ty) of the element's
\* accumulated transform over all its ancestors in the input document.
C4_PositionFromAllAncestors ==
    \A k \in 1..Len(pic.nodes) :
      LET el == ElementOf(pic.nodes[k])
          t == PathProduct(el).t
      IN  PathParses(el) =>
            pic.nodes[k].tex_pos = << t[1], RSub(pic.height, t[2]) >>

Matched(el) == Attr(el, "tag") = "text" \/ Has(el, "textext:text")

\* C6: once extraction has returned, no svg:text element and no annotated
\* element is reachable from the document root.
C6_MatchedElementsRemoved ==
    pc = "done" => \A el \in Elements : Attached(el, parent) => ~Matched(el)

\* extraction returned for a document with an svg:text element and an
\* annotated element outside it
C6_Witness ==
    /\ pc = "done"
    /\ \E a, b \in Elements :
         /\ Attr(a, "tag") = "text"
         /\ Has(b, "textext:text") /\ Attr(b, "tag") # "text"
         /\ doc.parent[b] # a
    /\ Len(pic.nodes) >= 1

\* the payloads of the annotated elements of S, in document order
RECURSIVE PayloadsOf(_)
PayloadsOf(els) ==
    IF els = <<>> THEN <<>>
    ELSE <<Attr(Head(els), "textext:text")>> \o PayloadsOf(Tail(els))

\* C7: the returned Picture holds one PictureNode per annotated element of
\* the document, each once and in document order, and none for a plain
\* svg:text element.
C7_OneNodePerAnnotatedElement ==
    pc = "done" =>
      [k \in 1..Len(pic.nodes) |-> pic.nodes[k].texcode[2]]
        = PayloadsOf(InOrder({ el \in Elements : Has(el, "textext:text") }))

\* the written attribute is one call of matrix, translate or scale with a
\* valid number of arguments
SingleValidCall(in) ==
    /\ in.form \in { "single", "padded" }
    /\ \/ in.func = S_matrix /\ in.nargs = 6
       \/ in.func \in { S_translate, S_scale } /\ in.nargs \in 1..2

\* C8: svg_parse_transform raises for every attribute that is not a single
\* call of matrix, translate or scale with a valid argument count.
C8_ParseTransformRejects ==
    (tfOut.called /\ ~SingleValidCall(tfIn)) => ~tfOut.ok

\* translate written with three arguments was handed to the parser
C8_Witness ==
    /\ tfOut.called /\ ~tfOut.ok
    /\ tfIn.form = "single" /\ tfIn.func = S_translate /\ tfIn.nargs = 3

Malformed(c) ==
    IF c[2] = "transform"
    THEN Attr(c[1], "transform") \in BadTransformTexts
    ELSE Attr(c[1], c[2]) \in BadLengthTexts

\* C9: extraction returns a Picture only if the root has width and height,
\* every length and transform attribute it consulted is well formed and
\* every referenced preamble file can be read; otherwise it ends in an
\* error.
C9_FailFast ==
    /\ pc = "done" =>
         /\ Has(1, "width") /\ Has(1, "height")
         /\ \A c \in consulted : ~Malformed(c)
         /\ preamble_files \subseteq Disk
         /\ ret = ""
    /\ pc = "error" => ret # ""

\* extraction ended in an error after a PictureNode had been built
C9_Witness ==
    /\ pc = "error"
    /\ Len(pic.nodes) >= 1
    /\ \E c \in consulted : Malformed(c)

IsHashRRGGBB(col) ==
    /\ Len(col) = 7
    /\ col[1] = "#"
    /\ \A k \in 2..7 : col[k] \in HexDigits

\* C10: svg_parse_color returns a result only for '#' followed by six
\* hexadecimal digits, and then the triple of its three byte values, each
\* in 0..255.
C10_OnlyHashRRGGBB ==
    (colOut.called /\ colOut.ok) =>
      /\ IsHashRRGGBB(colIn)
      /\ colOut.val = << HexNum(colIn, 2, 4), HexNum(colIn, 4, 6), HexNum(colIn, 6, 8) >>
      /\ \A k \in 1..3 : colOut.val[k] \in 0..255

=============================================================================
